---- MODULE Spec2Model ----
(***************************************************************************)
(* Model of lib/explorer.js: the callback-driven iteration driver syncLoop *)
(* and the resolvers built on it (prepare_vout, prepare_vin,               *)
(* get_input_addresses, is_unique, convert_to_satoshi).                    *)
(*                                                                         *)
(* JavaScript runs one call stack to completion per scheduler tick.  The   *)
(* model keeps that call stack explicitly: `stack` holds the activations   *)
(* that can still react to a return or to an exception, `exc` says that an *)
(* exception is propagating, `timers` holds the setTimeout callbacks that  *)
(* syncLoop scheduled.  A step is one call, one return or one unwinding    *)
(* step of the running tick, or the start of a new tick when the stack is  *)
(* empty.                                                                  *)
(***************************************************************************)
EXTENDS Integers, Sequences, FiniteSets, TLC

\* ------------------------------------------------------------- constants
YieldEvery == 100
SATOSHI_FACTOR == 100000000

\* ---------------------------------------------------------------- bounds
\* Short runs of syncLoop use every count in -1 .. SmallIter.
SmallIter == 3
\* The long run of syncLoop has YieldEvery + Over iterations.
Over == 2
\* Departures from the plain callback protocol (a second next(), a break(),
\* a throw, a call on the handle from outside) allowed in one short run.
MaxOdd == 2
\* Longest raw output list handed to prepare_vout.
MaxVout == 3
\* Failures of the caller's completion callback allowed in one resolver run.
MaxFail == 1

VARIABLES
  started,    \* the top-level call has been made
  iterArg,    \* syncLoop's `iterations` argument: [given, n]
  loops,      \* closures created by syncLoop: index, done, shouldExit, ...
  timers,     \* loop ids whose process(loop) waits in setTimeout
  stack,      \* activations of the running tick, innermost last
  exc,        \* an exception is propagating through `stack`
  log,        \* history: process / exit / break events, in order
  odd,        \* departures from the plain protocol still allowed
  escaped,    \* exceptions that left a tick (or the top-level call) uncaught
  tick,       \* number of the running scheduler tick (0: the top-level call)
  tickProcs,  \* process invocations made so far in the running tick
  args,       \* the arguments of the resolver call: [vout, vin]
  calls,      \* closures of the resolver calls: arr_vout, arr_vin, ...
  source,     \* the data source: what get_rawtransaction answers per txid
  fetches,    \* requests to the data source not yet answered
  settings    \* settings.supply and settings.use_rpc

vars == <<started, iterArg, loops, timers, stack, exc, log, odd, escaped,
          tick, tickProcs, args, calls, source, fetches, settings>>

\* The whole state as one record, so that the code's functions are operators
\* from state to state and compose the way the calls nest.
M ==
  [started |-> started, iterArg |-> iterArg, loops |-> loops, timers |-> timers,
   stack |-> stack, exc |-> exc, log |-> log, odd |-> odd, escaped |-> escaped,
   tick |-> tick, tickProcs |-> tickProcs, args |-> args, calls |-> calls,
   source |-> source, fetches |-> fetches, settings |-> settings]

Becomes(m) ==
  /\ started' = m.started
  /\ iterArg' = m.iterArg
  /\ loops' = m.loops
  /\ timers' = m.timers
  /\ stack' = m.stack
  /\ exc' = m.exc
  /\ log' = m.log
  /\ odd' = m.odd
  /\ escaped' = m.escaped
  /\ tick' = m.tick
  /\ tickProcs' = m.tickProcs
  /\ args' = m.args
  /\ calls' = m.calls
  /\ source' = m.source
  /\ fetches' = m.fetches
  /\ settings' = m.settings

\* ------------------------------------------------------------ JS values
\* A missing `iterations` argument is [given |-> FALSE].
NoCount == [given |-> FALSE, n |-> 0]
Count(n) == [given |-> TRUE, n |-> n]
LongIter == YieldEvery + Over
IterArgs == {NoCount} \cup {Count(n) : n \in (-1 .. SmallIter) \cup {LongIter}}

\* `!iterations || iterations <= 0`
NoIterations(a) == (~a.given) \/ a.n = 0 \/ a.n <= 0

Pop(s) == SubSeq(s, 1, Len(s) - 1)
SetTop(s, f) == [s EXCEPT ![Len(s)] = f]

\* ------------------------------------------------------------- history
\* `i` is what loop.iteration() reads at the event, `sync` whether the call
\* is made by running code (not by the scheduler or the handle's holder).
\* For a process call, `cur` is the currentIndex of the next() that asked
\* for it and `from` the tick in which that next() ran.
Event(m, e, id, i, sync, cur, from, end) ==
  [e |-> e, loop |-> id, i |-> i, sync |-> sync, tick |-> m.tick, cur |-> cur,
   from |-> from, end |-> end]
EvProcess(m, id, i, sync, cur, from) == Event(m, "process", id, i, sync, cur, from, FALSE)
EvExit(m, id) == Event(m, "exit", id, -1, TRUE, -1, m.tick, FALSE)
EvBreak(m, id, i, sync, end) == Event(m, "break", id, i, sync, -1, m.tick, end)
EvThrow(m, id, i) == Event(m, "throw", id, i, TRUE, -1, m.tick, FALSE)
EvNextAgain(m, id, i) == Event(m, "nextAgain", id, i, TRUE, -1, m.tick, FALSE)

\* ------------------------------------------------------------- syncLoop
\* Variant of Loop: the live handle is returned for every count.
LoopLiveHandle(kind, a, call, outer) ==
  [kind |-> kind, iterations |-> a.n, index |-> 0, done |-> FALSE,
   shouldExit |-> FALSE, dummy |-> FALSE, call |-> call, outer |-> outer,
   amount |-> [nan |-> FALSE, whole |-> 0, frac |-> 0]]

\* The closure of one syncLoop call.  `dummy` marks the handle returned for
\* a non-positive count, whose next, iteration and break do nothing.  `kind`
\* names the process and exit callbacks the caller passed, `call` the
\* resolver call they belong to (0: none).  For the loop get_input_addresses
\* runs over the outputs of a coinbase transaction, `amount` is its running
\* total (`var amount = 0`) and `outer` the loop of prepare_vin.
Loop(kind, a, call, outer) ==
  [kind |-> kind, iterations |-> a.n, index |-> 0, done |-> FALSE,
   shouldExit |-> FALSE, dummy |-> NoIterations(a), call |-> call, outer |-> outer,
   amount |-> [nan |-> FALSE, whole |-> 0, frac |-> 0]]

\* loop.iteration()
iteration(L) == IF L.dummy THEN -1 ELSE L.index - 1

\* An activation of a callback.  `fn` names the callback, `loop` the loop
\* whose next() it calls, `guarded` whether it was called inside next()'s
\* try block, `i` the value it read from loop.iteration(), `pc` where it
\* stands, `called` whether it has made its loop.next() call, `nexts` how
\* many next() calls the abstract process callback has made.  `unique`,
\* `index` and `address` are the values is_unique's callback captured,
\* `found` the list get_input_addresses hands to its callback.
Frame(fn, id, guarded, i) ==
  [fn |-> fn, loop |-> id, guarded |-> guarded, i |-> i, pc |-> "start",
   called |-> FALSE, nexts |-> 0, unique |-> FALSE, index |-> 0, address |-> "",
   found |-> <<>>]

\* process(loop): `guarded` says the call is made inside next()'s try block.
\* `cur` and `from` say which next() asked for the call (history only).
process(m, id, guarded, cur, from) ==
  LET L == m.loops[id]
      i == iteration(L)
  IN  [m EXCEPT !.stack = Append(@, Frame(L.kind, id, guarded, i)),
                !.log = Append(@, EvProcess(m, id, i, guarded, cur, from)),
                !.tickProcs = @ + 1]

\* ------------------------------------------------------------- amounts
\* A decimal coin amount as the node reports it: `whole` coins and `frac`
\* billionths of a coin; `nan` marks a value that is no number.
Dec(whole, frac) == [nan |-> FALSE, whole |-> whole, frac |-> frac]
Coin(whole) == Dec(whole, 0)
NaN == [nan |-> TRUE, whole |-> 0, frac |-> 0]

\* a + b on amounts.
plus(a, b) ==
  IF a.nan \/ b.nan THEN NaN
  ELSE LET f == a.frac + b.frac IN
       IF f >= 10 * SATOSHI_FACTOR
       THEN Dec(a.whole + b.whole + 1, f - 10 * SATOSHI_FACTOR)
       ELSE Dec(a.whole + b.whole, f)

\* A number of the program, an IEEE double: whole + num / den.
Double(whole, num, den) == [whole |-> whole, num |-> num, den |-> den]

\* The spacing of the doubles from 2^26 on, as a denominator: 52 bits
\* follow the leading one.
ulpDen(whole) ==
  IF whole < 2^27 THEN 2^26
  ELSE IF whole < 2^28 THEN 2^25
  ELSE IF whole < 2^29 THEN 2^24
  ELSE IF whole < 2^30 THEN 2^23
  ELSE 2^22

\* parseFloat(amount) of a decimal amount: the nearest double.  Below 2^26
\* the doubles lie less than 2^-27 apart, so the nearest one is nearer to
\* the amount than toFixed(8) can tell, and the amount stands for it.  From
\* 2^26 on the fraction is rounded to the spacing of the doubles there
\* (fractions below 16384 billionths, for the product to fit).
parseFloat(amount) ==
  IF amount.whole < 2^26 THEN Double(amount.whole, amount.frac, 10 * SATOSHI_FACTOR)
  ELSE LET den == ulpDen(amount.whole)
           a == amount.frac * (den \div 2^9)
           b == 5^9
       IN  Double(amount.whole, IF 2 * (a % b) > b THEN a \div b + 1 ELSE a \div b, den)

\* num.toFixed(8): eight fractional digits, rounded to nearest, the larger
\* one in a tie.
toFixed(num) ==
  LET q == IF num.den = 10 * SATOSHI_FACTOR THEN (num.num + 5) \div 10
           ELSE (2 * num.num * 5^8 + num.den \div 2^8) \div (2 * (num.den \div 2^8))
  IN  IF q = SATOSHI_FACTOR THEN [whole |-> num.whole + 1, digits |-> 0]
      ELSE [whole |-> num.whole, digits |-> q]

\* parseInt(fixed.replace('.', ''), 10)
parseInt(fixed) == fixed.whole * SATOSHI_FACTOR + fixed.digits

\* The value convert_to_satoshi hands to its callback.
convert_to_satoshi(amount) ==
  IF amount.nan THEN 0 ELSE parseInt(toFixed(parseFloat(amount)))

\* The same value as the digits parseInt reads, fixed.replace('.', ''): the
\* whole coins and the eight digits after them.  Below 2^53 parseInt
\* returns the very integer they spell.
satoshiDigits(amount) ==
  IF amount.nan THEN [whole |-> 0, digits |-> 0] ELSE toFixed(parseFloat(amount))

\* ------------------------------------------------------------ is_unique
\* is_unique(array, object): `index` is the first position whose addresses
\* equals object, 0 (null) when there is none.
is_unique(array, object) ==
  LET hits == {i \in 1 .. Len(array) : array[i].addresses = object} IN
  IF hits = {} THEN [unique |-> TRUE, index |-> 0]
  ELSE [unique |-> FALSE, index |-> CHOOSE i \in hits : \A j \in hits : i <= j]

\* Variant of insert: the amount replaces that of the entry found.
insertOverwrites(arr, unique, index, address, amount_sat) ==
  IF unique THEN Append(arr, [addresses |-> address, amount |-> amount_sat])
  ELSE IF index # 0 /\ index <= Len(arr)
       THEN [arr EXCEPT ![index].amount = amount_sat]
       ELSE arr

\* The callback of convert_to_satoshi in prepare_vout and prepare_vin: push a
\* new entry or add the amount to the entry is_unique found.
insert(arr, unique, index, address, amount_sat) ==
  IF unique THEN Append(arr, [addresses |-> address, amount |-> amount_sat])
  ELSE IF index # 0 /\ index <= Len(arr)
       THEN [arr EXCEPT ![index].amount = @ + amount_sat]
       ELSE arr

\* --------------------------------------------------------- prepare_vout
\* A raw output.  `ok` is FALSE for a null element, `spk` FALSE for a missing
\* scriptPubKey; a missing addresses list is <<>>, a missing address "".
Output(type, addresses, address, value) ==
  [ok |-> TRUE, spk |-> TRUE, type |-> type, addresses |-> addresses,
   address |-> address, value |-> value]

\* A list argument: `isArray` is Array.isArray(list).
Array(items) == [isArray |-> TRUE, items |-> items]
NoArray == [isArray |-> FALSE, items |-> <<>>]

\* The addresses of an output, by either format.
outputAddresses(output) ==
  IF Len(output.addresses) > 0 THEN output.addresses
  ELSE IF output.address # "" THEN <<output.address>>
  ELSE <<>>

\* Variant of skipsOutput: outputs of type nulldata are resolved.
skipsOutputButNulldata(output) ==
  \/ ~output.ok
  \/ ~output.spk
  \/ output.type = "nonstandard"

\* The test that makes prepare_vout pass over an output at once.
skipsOutput(output) ==
  \/ ~output.ok
  \/ ~output.spk
  \/ output.type = "nonstandard"
  \/ output.type = "nulldata"

\* Variant of sliceVin: `arr_vin = vin`, the caller's list object itself.
aliasVin(vin) ==
  [items |-> IF vin.isArray THEN vin.items ELSE <<>>, shared |-> vin.isArray]

\* `arr_vin = Array.isArray(vin) ? vin.slice() : []`: a list of its own, so
\* `shared` (arr_vin is the caller's list object) is FALSE.
sliceVin(vin) ==
  [items |-> IF vin.isArray THEN vin.items ELSE <<>>, shared |-> FALSE]

\* The closure of one prepare_vout call.
VoutCall(vout, vin) ==
  [op |-> "prepare_vout", vout |-> vout, vin |-> vin, arr_vout |-> <<>>,
   arr_vin |-> sliceVin(vin), cbs |-> <<>>]

\* Variant of isPoS: the addresses of the first entries are not compared.
isPoSAnyAddress(c) ==
  /\ Len(c.vout.items) > 0
  /\ c.vout.items[1].ok
  /\ c.vout.items[1].spk
  /\ c.vout.items[1].type = "nonstandard"
  /\ Len(c.arr_vin.items) > 0
  /\ Len(c.arr_vout) > 0

\* The proof-of-stake test of prepare_vout's completion callback.
isPoS(c) ==
  /\ Len(c.vout.items) > 0
  /\ c.vout.items[1].ok
  /\ c.vout.items[1].spk
  /\ c.vout.items[1].type = "nonstandard"
  /\ Len(c.arr_vin.items) > 0
  /\ Len(c.arr_vout) > 0
  /\ c.arr_vin.items[1].addresses = c.arr_vout[1].addresses

\* `arr_vin.shift()`: the first entry leaves arr_vin, and the caller's list
\* too when arr_vin is that list.
shiftVin(c) ==
  [c EXCEPT !.arr_vin.items = Tail(@),
            !.vin.items = IF c.arr_vin.shared THEN Tail(@) ELSE @]

\* The proof-of-stake adjustment.
adjustPoS(c) ==
  IF isPoS(c)
  THEN shiftVin([c EXCEPT !.arr_vout[1].amount = @ - c.arr_vin.items[1].amount])
  ELSE c

\* cb(arr_vout, arr_vin): what the caller's callback is handed.
callback(c, vout, vin) == [c EXCEPT !.cbs = Append(@, [vout |-> vout, vin |-> vin])]

\* The completion callback prepare_vout passes to syncLoop.
voutExit(c) ==
  LET a == adjustPoS(c) IN callback(a, a.arr_vout, a.arr_vin.items)

\* ---------------------------------------------------------- prepare_vin
\* A raw input.  `ok` is FALSE for a null element.
Input(coinbase, txid, vout) == [ok |-> TRUE, coinbase |-> coinbase, txid |-> txid, vout |-> vout]
NoInput == [ok |-> FALSE, coinbase |-> FALSE, txid |-> "", vout |-> 0]

\* The closure of one prepare_vin call: tx.vin and tx.vout, and arr_vin.
VinCall(tx) ==
  [op |-> "prepare_vin", vout |-> tx.vout, vin |-> tx.vin, arr_vout |-> <<>>,
   arr_vin |-> [items |-> <<>>, shared |-> FALSE], cbs |-> <<>>]

\* The completion callback prepare_vin passes to syncLoop: cb(arr_vin).
vinExit(c) == callback(c, <<>>, c.arr_vin.items)

\* The completion callback of get_input_addresses' loop over the outputs of
\* a coinbase transaction: cb([{ hash: 'coinbase', amount: amount }]).
sumExit(m, id) ==
  LET L == m.loops[id]
      K == [Frame("K", L.outer, FALSE, -1) EXCEPT
              !.found = <<[hash |-> "coinbase", amount |-> L.amount]>>]
  IN  [m EXCEPT !.stack = Append(@, K)]

\* ----------------------------------------------------------- get_supply
\* settings.supply (unset: "") and settings.use_rpc.
Settings(supply, use_rpc) == [supply |-> supply, use_rpc |-> use_rpc]
NoSettings == Settings("", FALSE)

\* A value of the program: the number n / d, a text that is no number, a
\* missing value (undefined), NaN, or a record with one field of
\* interest (moneysupply, total_amount, sent).
Num(n, d) == [t |-> "num", n |-> n, d |-> d, ft |-> "", fn |-> 0]
Text == [t |-> "text", n |-> 0, d |-> 1, ft |-> "", fn |-> 0]
Missing == [t |-> "missing", n |-> 0, d |-> 1, ft |-> "", fn |-> 0]
NotANumber == [t |-> "nan", n |-> 0, d |-> 1, ft |-> "", fn |-> 0]
Record(ft, fn) == [t |-> "record", n |-> 0, d |-> 1, ft |-> ft, fn |-> fn]

\* value.field: the field of a record, undefined on anything else.
field(value) ==
  IF value.t = "record"
  THEN (IF value.ft = "num" THEN Num(value.fn, 1)
        ELSE IF value.ft = "text" THEN Text ELSE Missing)
  ELSE Missing

\* !value.
falsy(value) == value.t \in {"missing", "nan"} \/ (value.t = "num" /\ value.n = 0)

\* `value && value.field`.
andField(value) == IF falsy(value) THEN value ELSE field(value)

\* supply / SATOSHI_FACTOR.
perFactor(value) ==
  IF value.t = "num"
  THEN (IF value.n = 0 THEN Num(0, 1) ELSE Num(value.n, value.d * SATOSHI_FACTOR))
  ELSE NotANumber

\* Variant of handleSupply: NaN is handed on.
handleSupplyNaN(value) == IF value.t = "num" THEN value ELSE NotANumber

\* handleSupply's argument to cb: parseFloat(value), 0 when that is NaN.
handleSupply(value) == IF value.t = "num" THEN value ELSE Num(0, 1)

\* What the store or the node answers: `err` an error, `response` the
\* address record, the first RPC response or the HTTP body, `rpcError` an
\* RPC response named RpcError, `docs` the balances found.
Answer(err, response, rpcError, docs) ==
  [err |-> err, response |-> response, rpcError |-> rpcError, docs |-> docs]

\* coinbase_supply: what its callback is handed.
coinbase_supply(answer) ==
  IF answer.err THEN Num(0, 1)
  ELSE IF falsy(answer.response) THEN Num(0, 1)
  ELSE field(answer.response)

\* rpcCommand: what its callback is handed.
rpcCommand(answer) ==
  IF answer.err THEN Text
  ELSE IF falsy(answer.response) \/ answer.rpcError THEN Text
  ELSE answer.response

\* docs[i].balance || 0.
balanceOrZero(balance) == IF balance.t = "num" THEN balance.n ELSE 0

\* balance_supply: what its callback is handed.
RECURSIVE sumBalances(_)
sumBalances(docs) ==
  IF docs = <<>> THEN 0 ELSE balanceOrZero(Head(docs)) + sumBalances(Tail(docs))
balance_supply(answer) == IF answer.err THEN Num(0, 1) ELSE Num(sumBalances(answer.docs), 1)

\* The HTTP request callbacks: error ? 0 : body.
bodyOrZero(answer) == IF answer.err THEN Num(0, 1) ELSE answer.response

\* get_supply: what cb is handed once the store or the node has answered.
get_supply(s, answer) ==
  IF s.supply = "" THEN perFactor(coinbase_supply(answer))
  ELSE IF s.supply = "HEAVY"
  THEN handleSupply(IF s.use_rpc THEN rpcCommand(answer) ELSE bodyOrZero(answer))
  ELSE IF s.supply \in {"GETINFO", "TXOUTSET"}
  THEN handleSupply(IF s.use_rpc THEN andField(rpcCommand(answer))
                    ELSE IF answer.err THEN Num(0, 1) ELSE andField(answer.response))
  ELSE IF s.supply = "BALANCES" THEN handleSupply(perFactor(balance_supply(answer)))
  ELSE handleSupply(perFactor(coinbase_supply(answer)))

\* The closure of one get_supply call: `cbs` is what cb was handed.
SupplyCall == [op |-> "get_supply", cbs |-> <<>>]

\* ------------------------------------------------------ calculate_total
\* An entry of the list calculate_total adds up.  `ok` is FALSE for a null
\* element, `given` FALSE for a missing amount.
Summand(amount) == [ok |-> TRUE, given |-> TRUE, amount |-> amount]
NoSummand == [ok |-> FALSE, given |-> FALSE, amount |-> [nan |-> FALSE, whole |-> 0, frac |-> 0]]
NoAmount == [ok |-> TRUE, given |-> FALSE, amount |-> [nan |-> FALSE, whole |-> 0, frac |-> 0]]

\* The closure of one calculate_total call.
TotalCall(vout) ==
  [op |-> "calculate_total", vout |-> vout, vin |-> NoArray, arr_vout |-> <<>>,
   arr_vin |-> [items |-> <<>>, shared |-> FALSE], cbs |-> <<>>]

\* cb(total): what the caller's callback is handed.
callbackTotal(c, total) ==
  [c EXCEPT !.cbs = Append(@, [vout |-> <<>>, vin |-> <<>>, total |-> total])]

\* exit(): `thr` says the caller's callback throws.
exit(m, id, thr) ==
  LET L == m.loops[id]
      m1 == [m EXCEPT !.log = Append(@, EvExit(m, id)), !.exc = thr]
  IN  IF L.kind = "vout" THEN [m1 EXCEPT !.calls[L.call] = voutExit(@)]
      ELSE IF L.kind = "vin" THEN [m1 EXCEPT !.calls[L.call] = vinExit(@)]
      ELSE IF L.kind = "sum" THEN sumExit(m1, id)
      ELSE IF L.kind = "total" THEN [m1 EXCEPT !.calls[L.call] = callbackTotal(@, L.amount)]
      ELSE m1

\* setTimeout(function() { process(loop); }, 1)
setTimeout(m, id, cur) ==
  [m EXCEPT !.timers = Append(@, [loop |-> id, cur |-> cur, tick |-> m.tick])]

\* Variant of Yields: only the first index goes through the timer.
YieldsOnlyFirst(currentIndex) == currentIndex = 0

\* Which index next() hands to the timer rather than to a direct call.
Yields(currentIndex) == currentIndex % YieldEvery = 0

\* Variant of next: the bound test is `index <= iterations`.
nextOffByOne(m, id, thr) ==
  LET L == m.loops[id] IN
  IF L.dummy THEN m
  ELSE IF L.done THEN (IF L.shouldExit THEN exit(m, id, thr) ELSE m)
  ELSE IF L.index <= L.iterations THEN
    LET currentIndex == L.index
        m1 == [m EXCEPT !.loops[id].index = currentIndex + 1]
    IN  IF Yields(currentIndex) THEN setTimeout(m1, id, currentIndex)
        ELSE process(m1, id, TRUE, currentIndex, m1.tick)
  ELSE exit([m EXCEPT !.loops[id].done = TRUE], id, thr)

\* The body of next().
next(m, id, thr) ==
  LET L == m.loops[id] IN
  IF L.dummy THEN m
  ELSE IF L.done THEN (IF L.shouldExit THEN exit(m, id, thr) ELSE m)
  ELSE IF L.index < L.iterations THEN
    LET currentIndex == L.index
        m1 == [m EXCEPT !.loops[id].index = currentIndex + 1]
    IN  IF Yields(currentIndex) THEN setTimeout(m1, id, currentIndex)
        ELSE process(m1, id, TRUE, currentIndex, m1.tick)
  ELSE exit([m EXCEPT !.loops[id].done = TRUE], id, thr)

\* The catch block of next(): the process call it guarded has thrown.
catch(m, id, thr) ==
  exit([m EXCEPT !.loops[id].done = TRUE, !.exc = FALSE], id, thr)

\* Variant of break: `end` is not kept.
breakForgetsEnd(m, id, end) ==
  LET L == m.loops[id] IN
  IF L.dummy THEN m
  ELSE [m EXCEPT !.loops[id].done = TRUE]

\* loop.break(end)
break(m, id, end) ==
  LET L == m.loops[id] IN
  IF L.dummy THEN m
  ELSE [m EXCEPT !.loops[id].done = TRUE, !.loops[id].shouldExit = end]

\* syncLoop(iterations, process, exit) up to its return.
syncLoop(m, kind, a, call, outer, thr) ==
  LET id == Len(m.loops) + 1
      m1 == [m EXCEPT !.loops = Append(@, Loop(kind, a, call, outer))]
  IN  IF NoIterations(a) THEN exit(m1, id, thr) ELSE next(m1, id, thr)

\* `var arr_vout = []; var arr_vin = ...; this.syncLoop(vout.length, ...)`, or
\* the immediate callback for a vout that is no array.
prepare_vout(m, vout, vin, thr) ==
  LET c == Len(m.calls) + 1
      m1 == [m EXCEPT !.calls = Append(@, VoutCall(vout, vin))]
  IN  IF ~vout.isArray
      THEN [m1 EXCEPT !.calls[c] = callback(@, <<>>, IF vin.isArray THEN vin.items ELSE <<>>),
                      !.log = Append(@, EvExit(m, 0)),
                      !.exc = thr]
      ELSE syncLoop(m1, "vout", Count(Len(vout.items)), c, 0, thr)

\* The process callback of prepare_vout, up to its call of loop.next(): the
\* output is passed over (pc "skip"), or its amount is converted and
\* inserted inside convert_to_satoshi's try block (pc "try").
voutBody(m) ==
  LET f == m.stack[Len(m.stack)]
      c == m.loops[f.loop].call
      output == m.calls[c].vout.items[f.i + 1]
      addresses == outputAddresses(output)
      address == addresses[1]
      u == is_unique(m.calls[c].arr_vout, address)
      amount_sat == convert_to_satoshi(output.value)
  IN  IF skipsOutput(output) \/ addresses = <<>>
      THEN [m EXCEPT !.stack = SetTop(@, [f EXCEPT !.pc = "skip"])]
      ELSE [m EXCEPT !.calls[c].arr_vout = insert(@, u.unique, u.index, address, amount_sat),
                     !.stack = SetTop(@, [f EXCEPT !.pc = "try", !.unique = u.unique,
                                                   !.index = u.index, !.address = address])]

\* The catch block of convert_to_satoshi: whatever its callback threw, the
\* callback is called again with 0, with the unique and index it captured.
convertCatch(m) ==
  LET f == m.stack[Len(m.stack)]
      c == m.loops[f.loop].call
      m1 == [m EXCEPT !.exc = FALSE,
                      !.stack = SetTop(@, [f EXCEPT !.pc = "catch", !.called = FALSE])]
  IN  IF f.fn = "vout"
      THEN [m1 EXCEPT !.calls[c].arr_vout = insert(@, f.unique, f.index, f.address, 0)]
      ELSE [m1 EXCEPT !.calls[c].arr_vin.items = insert(@, f.unique, f.index, f.address, 0)]

\* `if (!Array.isArray(vout)) return cb(0);`, else the loop over vout with
\* `total` as its running sum.
calculate_total(m, vout, thr) ==
  LET c == Len(m.calls) + 1
      m1 == [m EXCEPT !.calls = Append(@, TotalCall(vout))]
  IN  IF ~vout.isArray
      THEN [m1 EXCEPT !.calls[c] = callbackTotal(@, Coin(0)),
                      !.log = Append(@, EvExit(m, 0)),
                      !.exc = thr]
      ELSE syncLoop(m1, "total", Count(Len(vout.items)), c, 0, thr)

\* The process callback of calculate_total up to its call of loop.next():
\* total += parseFloat(vout[i].amount || 0).  Reading `.amount` of a null
\* element throws.
totalBody(m) ==
  LET f == m.stack[Len(m.stack)]
      c == m.loops[f.loop].call
      entry == m.calls[c].vout.items[f.i + 1]
      amount == IF entry.given THEN entry.amount ELSE Coin(0)
  IN  IF ~entry.ok
      THEN [m EXCEPT !.exc = TRUE, !.stack = SetTop(@, [f EXCEPT !.pc = "ret"])]
      ELSE [m EXCEPT !.loops[f.loop].amount = plus(@, amount),
                     !.stack = SetTop(@, [f EXCEPT !.pc = "skip"])]

\* `if (!tx || !Array.isArray(tx.vin)) return cb([]);`, else the loop over
\* tx.vin.
prepare_vin(m, tx, thr) ==
  LET c == Len(m.calls) + 1
      m1 == [m EXCEPT !.calls = Append(@, VinCall(tx))]
  IN  IF ~tx.vin.isArray
      THEN [m1 EXCEPT !.calls[c] = callback(@, <<>>, <<>>),
                      !.log = Append(@, EvExit(m, 0)),
                      !.exc = thr]
      ELSE syncLoop(m1, "vin", Count(Len(tx.vin.items)), c, 0, thr)

\* Variant of get_rawtransaction: the callback is also called at once, with
\* nothing found, while the request is on its way.
get_rawtransactionCallsBackEarly(m, id, input) ==
  [m EXCEPT !.fetches = Append(@, [loop |-> id, input |-> input]),
            !.stack = Append(@, Frame("K", id, FALSE, -1))]

\* this.get_rawtransaction(input.txid, ...): the request is on its way.
get_rawtransaction(m, id, input) ==
  [m EXCEPT !.fetches = Append(@, [loop |-> id, input |-> input])]

\* The process callback of prepare_vin: get_input_addresses(tx.vin[i],
\* tx.vout, ...) up to its return.  A null input calls back at once with [];
\* a coinbase input starts the loop over tx.vout (`vout.length` throws when
\* tx.vout is missing); any other input asks the data source.
vinBody(m) ==
  LET f == m.stack[Len(m.stack)]
      c == m.loops[f.loop].call
      input == m.calls[c].vin.items[f.i + 1]
      vout == m.calls[c].vout
      m1 == [m EXCEPT !.stack = SetTop(@, [f EXCEPT !.pc = "ret"])]
  IN  IF ~input.ok
      THEN [m1 EXCEPT !.stack = Append(@, Frame("K", f.loop, FALSE, -1))]
      ELSE IF input.coinbase
      THEN IF ~vout.isArray THEN [m1 EXCEPT !.exc = TRUE]
           ELSE syncLoop(m1, "sum", Count(Len(vout.items)), c, f.loop, FALSE)
      ELSE get_rawtransaction(m1, f.loop, input)

\* The process callback of the loop over a coinbase transaction's outputs,
\* up to its call of loop.next(): amount += parseFloat(vout[i].value || 0).
sumBody(m) ==
  LET f == m.stack[Len(m.stack)]
      c == m.loops[f.loop].call
      output == m.calls[c].vout.items[f.i + 1]
      value == IF output.ok THEN output.value ELSE Coin(0)
  IN  [m EXCEPT !.loops[f.loop].amount = plus(@, value),
                !.stack = SetTop(@, [f EXCEPT !.pc = "skip"])]

\* `parseFloat(addr.amount || 0)`: NaN is falsy.
amountOrZero(amount) == IF amount.nan THEN Coin(0) ELSE amount

\* Variant of addressesBody: arr_vin is one list for every call, the first
\* call's.
addressesBodyOneList(m) ==
  LET f == m.stack[Len(m.stack)]
      c == 1
      addr == f.found[1]
      u == is_unique(m.calls[c].arr_vin.items, addr.hash)
      amount_sat == convert_to_satoshi(amountOrZero(addr.amount))
  IN  IF f.found = <<>>
      THEN [m EXCEPT !.stack = SetTop(@, [f EXCEPT !.pc = "skip"])]
      ELSE [m EXCEPT !.calls[c].arr_vin.items = insert(@, u.unique, u.index, addr.hash, amount_sat),
                     !.stack = SetTop(@, [f EXCEPT !.pc = "try", !.unique = u.unique,
                                                   !.index = u.index, !.address = addr.hash])]

\* The callback prepare_vin gives to get_input_addresses, up to its call of
\* loop.next(): an empty list is passed over, else the first address found is
\* inserted inside convert_to_satoshi's try block.
addressesBody(m) ==
  LET f == m.stack[Len(m.stack)]
      c == m.loops[f.loop].call
      addr == f.found[1]
      u == is_unique(m.calls[c].arr_vin.items, addr.hash)
      amount_sat == convert_to_satoshi(amountOrZero(addr.amount))
  IN  IF f.found = <<>>
      THEN [m EXCEPT !.stack = SetTop(@, [f EXCEPT !.pc = "skip"])]
      ELSE [m EXCEPT !.calls[c].arr_vin.items = insert(@, u.unique, u.index, addr.hash, amount_sat),
                     !.stack = SetTop(@, [f EXCEPT !.pc = "try", !.unique = u.unique,
                                                   !.index = u.index, !.address = addr.hash])]

\* Variant of inputAddresses: without an output whose n is input.vout, the
\* first output of the answer is taken.
inputAddressesOrFirst(tx, input) ==
  IF ~tx.ok \/ ~tx.vout.isArray THEN <<>>
  ELSE LET hits == {i \in 1 .. Len(tx.vout.items) : tx.vout.items[i].n = input.vout}
           at == IF hits = {} THEN 1 ELSE CHOOSE i \in hits : \A j \in hits : i <= j
           output == tx.vout.items[at]
           addresses == IF output.spk THEN outputAddresses(output) ELSE <<>>
       IN  IF addresses # <<>>
           THEN <<[hash |-> addresses[1], amount |-> output.value]>>
           ELSE <<>>

\* The callback get_input_addresses gives to get_rawtransaction: the list it
\* hands on for the answer `tx`: the first address of the output whose n is
\* input.vout, with that output's value.
inputAddresses(tx, input) ==
  IF ~tx.ok \/ ~tx.vout.isArray THEN <<>>
  ELSE LET hits == {i \in 1 .. Len(tx.vout.items) : tx.vout.items[i].n = input.vout} IN
       IF hits = {} THEN <<>>
       ELSE LET output == tx.vout.items[CHOOSE i \in hits : \A j \in hits : i <= j]
                addresses == IF output.spk THEN outputAddresses(output) ELSE <<>>
            IN  IF addresses # <<>>
                THEN <<[hash |-> addresses[1], amount |-> output.value]>>
                ELSE <<>>

\* ------------------------------------------------ the running call stack
Running == stack # <<>> /\ ~exc
Idle == stack = <<>> /\ ~exc
Top == stack[Len(stack)]

\* The step from m0 to r called the completion callback of the caller.
Exits(m0, r) ==
  /\ Len(r.log) = Len(m0.log) + 1
  /\ r.log[Len(r.log)].e = "exit"
  /\ r.log[Len(r.log)].loop # 0 => r.loops[r.log[Len(r.log)].loop].kind # "sum"

\* One step of the code: Op(thr) is the state it leaves, `thr` whether the
\* exit callback it reaches throws, `cost` the departures it uses up.
Step(m0, Op(_), cost) ==
  \E thr \in BOOLEAN :
    LET spent == cost + (IF thr THEN 1 ELSE 0) IN
    /\ thr => Exits(m0, Op(FALSE))
    /\ odd >= spent
    /\ Becomes([Op(thr) EXCEPT !.odd = odd - spent])

\* A new scheduler tick begins.
NewTick(m) == [m EXCEPT !.tick = @ + 1, !.tickProcs = 0]

\* The caller calls syncLoop(iterations, process, exit).
SyncLoop ==
  /\ ~started
  /\ Step(M, LAMBDA thr : syncLoop([M EXCEPT !.started = TRUE], "process", iterArg, 0, 0, thr), 0)

\* The timer set by next() fires: process(loop) runs outside any try block.
TimerFire ==
  /\ Idle
  /\ timers # <<>>
  /\ Becomes(process(NewTick([M EXCEPT !.timers = Tail(@)]), Head(timers).loop, FALSE,
                      Head(timers).cur, Head(timers).tick))

\* The process callback calls loop.next().  Its first call is the protocol,
\* a further one a departure.
ProcNext ==
  /\ Running
  /\ Top.fn = "process"
  /\ LET f == Top
         m0 == [M EXCEPT !.stack = SetTop(@, [f EXCEPT !.nexts = @ + 1]),
                         !.log = IF f.nexts = 0 THEN @
                                 ELSE Append(@, EvNextAgain(M, f.loop, f.i))]
     IN  Step(m0, LAMBDA thr : next(m0, f.loop, thr), IF f.nexts = 0 THEN 0 ELSE 1)

\* The process callback calls loop.break(end).
ProcBreak ==
  /\ Running
  /\ Top.fn = "process"
  /\ \E end \in BOOLEAN :
       LET f == Top
           m0 == [M EXCEPT !.log = Append(@, EvBreak(M, f.loop, f.i, TRUE, end))]
       IN  Step(m0, LAMBDA thr : break(m0, f.loop, end), 1)

\* The process callback throws.
ProcThrow ==
  /\ Running
  /\ Top.fn = "process"
  /\ LET f == Top
         m0 == [M EXCEPT !.exc = TRUE, !.log = Append(@, EvThrow(M, f.loop, f.i))]
     IN  Step(m0, LAMBDA thr : m0, 1)

\* The process callback returns.  Returning without having called next() or
\* break() leaves the loop waiting: a departure.
ProcReturn ==
  /\ Running
  /\ Top.fn = "process"
  /\ LET f == Top
         m0 == [M EXCEPT !.stack = Pop(@)]
         waits == f.nexts = 0 /\ ~loops[f.loop].done
     IN  Step(m0, LAMBDA thr : m0, IF waits THEN 1 ELSE 0)

\* An exception reaches the innermost activation.  Inside the try block of
\* convert_to_satoshi its catch block runs.  Otherwise the exception leaves
\* the activation: if next() called it inside its try block, the catch block
\* of next() runs, else the exception goes on to the caller.
Unwind ==
  /\ exc
  /\ stack # <<>>
  /\ LET f == Top
         m0 == [M EXCEPT !.stack = Pop(@)]
     IN  IF f.pc = "try" THEN Becomes(convertCatch(M))
         ELSE IF f.guarded THEN Step(m0, LAMBDA thr : catch(m0, f.loop, thr), 0)
         ELSE Becomes(m0)

\* The exception reaches the scheduler (or the caller of the top-level call).
Uncaught ==
  /\ exc
  /\ stack = <<>>
  /\ Becomes([M EXCEPT !.exc = FALSE, !.escaped = @ + 1])

\* The holder of the returned handle calls next() from a tick of its own.
HandleNext ==
  /\ Idle
  /\ started
  /\ LET m0 == NewTick(M) IN Step(m0, LAMBDA thr : next(m0, 1, thr), 1)

\* The holder of the returned handle calls break(end) from a tick of its own.
HandleBreak ==
  /\ Idle
  /\ started
  /\ \E end \in BOOLEAN :
       LET m0 == [NewTick(M) EXCEPT
                    !.log = Append(@, EvBreak(NewTick(M), 1, iteration(loops[1]),
                                              FALSE, end))]
       IN  Step(m0, LAMBDA thr : break(m0, 1, end), 1)

\* The caller calls prepare_vout(vout, txid, vin, cb).
PrepareVout ==
  /\ ~started
  /\ Step(M, LAMBDA thr : prepare_vout([M EXCEPT !.started = TRUE], args.vout, args.vin, thr), 0)

\* The process callback of prepare_vout runs up to its call of loop.next().
VoutProcess ==
  /\ Running
  /\ Top.fn = "vout"
  /\ Top.pc = "start"
  /\ Becomes(voutBody(M))

\* The caller calls convert_to_satoshi(amount, cb).
ConvertToSatoshi ==
  /\ ~started
  /\ Becomes([M EXCEPT !.started = TRUE,
                       !.calls = Append(@, [op |-> "convert_to_satoshi",
                                            cbs |-> <<satoshiDigits(args.amount)>>])])

\* The caller calls get_supply(cb): the query to the store or the node is
\* on its way.
GetSupply ==
  /\ ~started
  /\ Becomes([M EXCEPT !.started = TRUE,
                       !.calls = Append(@, SupplyCall),
                       !.fetches = Append(@, [op |-> "get_supply", call |-> Len(calls) + 1])])

\* The store or the node answers, in a tick of its own; cb is called, and
\* may throw.
SupplyAnswer ==
  /\ Idle
  /\ fetches # <<>>
  /\ \E thr \in BOOLEAN :
       /\ odd >= (IF thr THEN 1 ELSE 0)
       /\ Becomes([NewTick(M) EXCEPT
                     !.fetches = Tail(@),
                     !.calls[Head(fetches).call].cbs = Append(@, get_supply(settings, source)),
                     !.exc = thr,
                     !.odd = IF thr THEN @ - 1 ELSE @])

\* The caller calls calculate_total(vout, cb).
CalculateTotal ==
  /\ ~started
  /\ Step(M, LAMBDA thr : calculate_total([M EXCEPT !.started = TRUE], args.vout, thr), 0)

\* The process callback of calculate_total adds one amount.
TotalProcess ==
  /\ Running
  /\ Top.fn = "total"
  /\ Top.pc = "start"
  /\ Becomes(totalBody(M))

\* The caller calls prepare_vin(tx, cb).
PrepareVin ==
  /\ ~started
  /\ Step(M, LAMBDA thr : prepare_vin([M EXCEPT !.started = TRUE], args, thr), 0)

\* The process callback of prepare_vin runs get_input_addresses.
VinProcess ==
  /\ Running
  /\ Top.fn = "vin"
  /\ Top.pc = "start"
  /\ Becomes(vinBody(M))

\* The process callback of the coinbase loop adds one output value.
SumProcess ==
  /\ Running
  /\ Top.fn = "sum"
  /\ Top.pc = "start"
  /\ Becomes(sumBody(M))

\* The callback of get_input_addresses runs up to its call of loop.next().
AddressesCallback ==
  /\ Running
  /\ Top.fn = "K"
  /\ Top.pc = "start"
  /\ Becomes(addressesBody(M))

\* The data source answers one of the outstanding requests, in any order;
\* get_input_addresses hands what it finds to its callback, in a tick of
\* its own.
FetchDone ==
  /\ Idle
  /\ \E n \in 1 .. Len(fetches) :
       LET r == fetches[n]
           K == [Frame("K", r.loop, FALSE, -1) EXCEPT
                   !.found = inputAddresses(source[r.input.txid], r.input)]
       IN  Becomes([NewTick(M) EXCEPT
                      !.fetches = SubSeq(@, 1, n - 1) \o SubSeq(@, n + 1, Len(@)),
                      !.stack = <<K>>])

\* A resolver callback makes its call of loop.next().
CallNext ==
  /\ Running
  /\ Top.pc \in {"skip", "try", "catch"}
  /\ ~Top.called
  /\ LET f == Top
         m0 == [M EXCEPT !.stack = SetTop(@, [f EXCEPT !.called = TRUE])]
     IN  Step(m0, LAMBDA thr : next(m0, f.loop, thr), 0)

\* A resolver callback returns to its caller after its call of loop.next().
Return ==
  /\ Running
  /\ Top.fn # "process"
  /\ Top.called \/ Top.pc = "ret"
  /\ Becomes([M EXCEPT !.stack = Pop(@)])

\* Long runs get one departure, short runs MaxOdd.
Budget(a) == IF a.n >= YieldEvery THEN 1 ELSE MaxOdd

Init ==
  /\ started = FALSE
  /\ iterArg \in IterArgs
  /\ loops = <<>>
  /\ timers = <<>>
  /\ stack = <<>>
  /\ exc = FALSE
  /\ log = <<>>
  /\ odd = Budget(iterArg)
  /\ escaped = 0
  /\ tick = 0
  /\ tickProcs = 0
  /\ args = [vout |-> NoArray, vin |-> NoArray]
  /\ calls = <<>>
  /\ source = <<>>
  /\ fetches = <<>>
  /\ settings = NoSettings

Next ==
  \/ SyncLoop
  \/ TimerFire
  \/ ProcNext
  \/ ProcBreak
  \/ ProcThrow
  \/ ProcReturn
  \/ Unwind
  \/ Uncaught
  \/ HandleNext
  \/ HandleBreak

Spec == Init /\ [][Next]_vars

\* ------------------------------------------- prepare_vout on its own
Addresses == {"A", "B"}
Values == {Coin(1), Coin(2)}
Entry(address, value) == [addresses |-> address, amount |-> convert_to_satoshi(value)]

\* Outputs of a type prepare_vout resolves come in every address format:
\* none, the address format, the addresses format, and both at once; the
\* outputs it passes over are a null element and outputs of the types
\* nonstandard and nulldata, with and without addresses.
Outputs ==
  {Output("pubkeyhash", <<>>, "", Coin(1)),
   Output("pubkeyhash", <<"B", "A">>, "", Coin(2)),
   Output("pubkeyhash", <<"B", "A">>, "A", Coin(1)),
   [Output("pubkeyhash", <<"A">>, "", Coin(1)) EXCEPT !.ok = FALSE],
   Output("nonstandard", <<>>, "", Coin(1)),
   Output("nonstandard", <<"A">>, "", Coin(2)),
   Output("nulldata", <<"A">>, "", Coin(1))}
  \cup {Output("pubkeyhash", <<"A">>, "", v) : v \in Values}
  \cup {Output("pubkeyhash", <<>>, "A", v) : v \in Values}

VoutLists == UNION {[1 .. n -> Outputs] : n \in 0 .. MaxVout}

\* The resolved input sets a caller passes as vin: what prepare_vin returns.
\* The last one spends more from "A" than any output list pays to it first.
VinLists ==
  {<<>>, <<Entry("A", Coin(1))>>, <<Entry("B", Coin(1)), Entry("A", Coin(1))>>,
   <<Entry("A", Coin(1)), Entry("B", Coin(2))>>, <<Entry("A", Coin(3))>>}

InitVout ==
  /\ started = FALSE
  /\ iterArg = NoCount
  /\ loops = <<>>
  /\ timers = <<>>
  /\ stack = <<>>
  /\ exc = FALSE
  /\ log = <<>>
  /\ odd = MaxFail
  /\ escaped = 0
  /\ tick = 0
  /\ tickProcs = 0
  /\ args \in [vout : {Array(l) : l \in VoutLists} \cup {NoArray},
               vin : {Array(l) : l \in VinLists} \cup {NoArray}]
  /\ calls = <<>>
  /\ source = <<>>
  /\ fetches = <<>>
  /\ settings = NoSettings

NextVout ==
  \/ PrepareVout
  \/ TimerFire
  \/ VoutProcess
  \/ CallNext
  \/ Return
  \/ Unwind
  \/ Uncaught

SpecVout == InitVout /\ [][NextVout]_vars

\* -------------------------------------------- prepare_vin on its own
\* An output of a funding transaction: a raw output with its position n.
Funding(n, addresses, address, value) ==
  [ok |-> TRUE, spk |-> TRUE, n |-> n, type |-> "pubkeyhash", addresses |-> addresses,
   address |-> address, value |-> value]
Transaction(vout) == [ok |-> TRUE, vout |-> Array(vout)]
Failure == [ok |-> FALSE, vout |-> NoArray]

\* The data source: t1 pays "A" (addresses format), "B" (address format) and
\* an output without address; the request for t2 fails.
Source ==
  [t \in {"t1", "t2"} |->
     IF t = "t1"
     THEN Transaction(<<Funding(0, <<"A">>, "", Coin(1)),
                        Funding(1, <<>>, "B", Coin(2)),
                        Funding(2, <<>>, "", Coin(1))>>)
     ELSE Failure]

\* Longest raw input list, longest output list of the spending transaction.
MaxVin == 3
MaxTxVout == 2
\* Most coinbase inputs in one list, most whole coins in one output list:
\* they keep every amount below 2^31.
MaxCoinbase == 2
MaxCoins == 6

Inputs ==
  {Input(TRUE, "", 0), NoInput}
  \cup {Input(FALSE, "t1", n) : n \in 0 .. 3}
  \cup {Input(FALSE, "t2", 0)}
VinRawLists ==
  {l \in UNION {[1 .. n -> Inputs] : n \in 0 .. MaxVin} :
     Cardinality({k \in 1 .. Len(l) : l[k].coinbase}) <= MaxCoinbase}

\* Outputs of the spending transaction: whole coins and a value with a
\* ninth fractional digit.
TxOutputs == {Output("pubkeyhash", <<"A">>, "", v) : v \in {Coin(2), Coin(3), Dec(0, 6)}}
RECURSIVE Coins(_)
Coins(l) == IF l = <<>> THEN 0 ELSE Head(l).value.whole + Coins(Tail(l))
TxVoutLists ==
  {l \in UNION {[1 .. n -> TxOutputs] : n \in 0 .. MaxTxVout} : Coins(l) <= MaxCoins}

InitVin ==
  /\ started = FALSE
  /\ iterArg = NoCount
  /\ loops = <<>>
  /\ timers = <<>>
  /\ stack = <<>>
  /\ exc = FALSE
  /\ log = <<>>
  /\ odd = MaxFail
  /\ escaped = 0
  /\ tick = 0
  /\ tickProcs = 0
  /\ args \in [vout : {Array(l) : l \in TxVoutLists} \cup {NoArray},
               vin : {Array(l) : l \in VinRawLists} \cup {NoArray}]
  /\ calls = <<>>
  /\ source = Source
  /\ fetches = <<>>
  /\ settings = NoSettings

NextVin ==
  \/ PrepareVin
  \/ TimerFire
  \/ VinProcess
  \/ SumProcess
  \/ AddressesCallback
  \/ FetchDone
  \/ CallNext
  \/ Return
  \/ Unwind
  \/ Uncaught

SpecVin == InitVin /\ [][NextVin]_vars

\* ---------------------------------------- convert_to_satoshi on its own
\* Amounts of a few coins, amounts around 2^26 coins, and amounts just
\* below 2^53 / 10^8 coins; fractions of up to eight digits, one of nine.
SmallWholes == {0, 1, 2, 3, 21}
LargeWholes == {2^26, 2^26 + 1, 2^27, 90071991}
ConvertAmounts ==
  {NaN}
  \cup {Dec(w, f) : w \in SmallWholes \cup {2^26 - 1},
                     f \in {0, 10, 20, 30, 10000000, 100000000, 234567890, 999999990, 6}}
  \cup {Dec(w, f) : w \in LargeWholes, f \in {0, 10, 20, 30}}

InitConvert ==
  /\ started = FALSE
  /\ iterArg = NoCount
  /\ loops = <<>>
  /\ timers = <<>>
  /\ stack = <<>>
  /\ exc = FALSE
  /\ log = <<>>
  /\ odd = MaxFail
  /\ escaped = 0
  /\ tick = 0
  /\ tickProcs = 0
  /\ args \in [amount : ConvertAmounts]
  /\ calls = <<>>
  /\ source = <<>>
  /\ fetches = <<>>
  /\ settings = NoSettings

NextConvert == ConvertToSatoshi

SpecConvert == InitConvert /\ [][NextConvert]_vars

\* ---------------------------------------------- get_supply on its own
\* Most balances the store finds.
MaxDocs == 2

Strategies == {"", "HEAVY", "GETINFO", "TXOUTSET", "BALANCES", "OTHER"}

\* The node answers with anything: nothing, a text, a number, a record with
\* or without the number looked for, an error, an RPC error.
Responses ==
  {Missing, Text, Num(0, 1), Num(5, 1), Num(150000000, 1),
   Record("num", 5), Record("num", 150000000), Record("text", 0), Record("missing", 0)}
NodeAnswers ==
  {Answer(TRUE, Missing, FALSE, <<>>), Answer(FALSE, Record("missing", 0), TRUE, <<>>)}
  \cup {Answer(FALSE, r, FALSE, <<>>) : r \in Responses}

\* The balance store answers findOne with an error, with no address, or
\* with an address and the integer it has sent, and find with an error or
\* with the balances found.
StoreAnswers ==
  {Answer(TRUE, Missing, FALSE, <<>>), Answer(FALSE, Missing, FALSE, <<>>)}
  \cup {Answer(FALSE, Record("num", n), FALSE, <<>>) : n \in {0, 150000000}}
Balances == {Num(100000000, 1), Missing}
BalanceAnswers ==
  {Answer(TRUE, Missing, FALSE, <<>>)}
  \cup {Answer(FALSE, Missing, FALSE, d) : d \in UNION {[1 .. n -> Balances] : n \in 0 .. MaxDocs}}
AnswersTo(supply) ==
  IF supply \in {"HEAVY", "GETINFO", "TXOUTSET"} THEN NodeAnswers
  ELSE IF supply = "BALANCES" THEN BalanceAnswers
  ELSE StoreAnswers

InitSupply ==
  /\ started = FALSE
  /\ iterArg = NoCount
  /\ loops = <<>>
  /\ timers = <<>>
  /\ stack = <<>>
  /\ exc = FALSE
  /\ log = <<>>
  /\ odd = MaxFail
  /\ escaped = 0
  /\ tick = 0
  /\ tickProcs = 0
  /\ args = [vout |-> NoArray, vin |-> NoArray]
  /\ calls = <<>>
  /\ settings \in {Settings(s, r) : s \in Strategies, r \in BOOLEAN}
  /\ source \in AnswersTo(settings.supply)
  /\ fetches = <<>>

NextSupply ==
  \/ GetSupply
  \/ SupplyAnswer
  \/ Uncaught

SpecSupply == InitSupply /\ [][NextSupply]_vars

\* ----------------------------------------- calculate_total on its own
\* Longest list calculate_total is given.
MaxTotal == 3

\* Entries with an amount, with a text for an amount, without amount, and
\* null elements.
Summands == {Summand(Coin(1)), Summand(Dec(2, 500000000)), Summand(NaN), NoAmount, NoSummand}
TotalLists == UNION {[1 .. n -> Summands] : n \in 0 .. MaxTotal}

InitTotal ==
  /\ started = FALSE
  /\ iterArg = NoCount
  /\ loops = <<>>
  /\ timers = <<>>
  /\ stack = <<>>
  /\ exc = FALSE
  /\ log = <<>>
  /\ odd = MaxFail
  /\ escaped = 0
  /\ tick = 0
  /\ tickProcs = 0
  /\ args \in [vout : {Array(l) : l \in TotalLists} \cup {NoArray}, vin : {NoArray}]
  /\ calls = <<>>
  /\ source = <<>>
  /\ fetches = <<>>
  /\ settings = NoSettings

NextTotal ==
  \/ CalculateTotal
  \/ TimerFire
  \/ TotalProcess
  \/ CallNext
  \/ Return
  \/ Unwind
  \/ Uncaught

SpecTotal == InitTotal /\ [][NextTotal]_vars

\* ------------------------------------------- two resolver calls at once
\* Longest list handed to either call.
PairLen == 2

\* The arguments of one resolver call: prepare_vout(vout, txid, vin, cb) or
\* prepare_vin({vin: vin, vout: vout}, cb).
Resolver(op, vout, vin) == [op |-> op, vout |-> vout, vin |-> vin]

\* Both calls work on the address "A": an output paying it and a
\* nonstandard first output for prepare_vout; a coinbase input and an input
\* funded by "A" for prepare_vin, with and without the transaction's outputs.
PairOutputs ==
  {Output("pubkeyhash", <<"A">>, "", Coin(1)),
   Output("nonstandard", <<>>, "", Coin(1))}
PairInputs ==
  {Input(TRUE, "", 0), Input(FALSE, "t1", 0)}
Resolvers ==
  {Resolver("prepare_vout", Array(l), Array(v)) :
     l \in UNION {[1 .. n -> PairOutputs] : n \in 0 .. PairLen},
     v \in {<<Entry("A", Coin(1))>>}}
  \cup {Resolver("prepare_vin", o, Array(l)) :
          o \in {Array(<<Output("pubkeyhash", <<"A">>, "", Coin(2))>>), NoArray},
          l \in UNION {[1 .. n -> PairInputs] : n \in 0 .. PairLen}}

\* The caller makes one resolver call.
resolve(m, a, thr) ==
  IF a.op = "prepare_vout" THEN prepare_vout(m, a.vout, a.vin, thr)
  ELSE prepare_vin(m, a, thr)

\* The caller makes the first call.
ResolveFirst ==
  /\ ~started
  /\ Step(M, LAMBDA thr : resolve([M EXCEPT !.started = TRUE], args[1], thr), 0)

\* The caller makes the second call while the first has not called back: in
\* the same tick, or in a later one between two ticks of the first.
ResolveSecond ==
  /\ started
  /\ Idle
  /\ Len(calls) = 1
  /\ calls[1].cbs = <<>>
  /\ Step(M, LAMBDA thr : resolve(M, args[2], thr), 0)

InitPair ==
  /\ started = FALSE
  /\ iterArg = NoCount
  /\ loops = <<>>
  /\ timers = <<>>
  /\ stack = <<>>
  /\ exc = FALSE
  /\ log = <<>>
  /\ odd = MaxFail
  /\ escaped = 0
  /\ tick = 0
  /\ tickProcs = 0
  /\ args \in [1 .. 2 -> Resolvers]
  /\ calls = <<>>
  /\ source = Source
  /\ fetches = <<>>
  /\ settings = NoSettings

NextPair ==
  \/ ResolveFirst
  \/ ResolveSecond
  \/ TimerFire
  \/ VoutProcess
  \/ VinProcess
  \/ SumProcess
  \/ AddressesCallback
  \/ FetchDone
  \/ CallNext
  \/ Return
  \/ Unwind
  \/ Uncaught

SpecPair == InitPair /\ [][NextPair]_vars

\* ================================================================ claims
Procs == SelectSeq(log, LAMBDA ev : ev.e = "process")
ExitCount == Len(SelectSeq(log, LAMBDA ev : ev.e = "exit"))
BreakCount == Len(SelectSeq(log, LAMBDA ev : ev.e = "break"))
\* No departure from the plain protocol so far: every process invocation
\* called next() at most once, none called break() or threw, exit returned.
Plain == odd = Budget(iterArg)
\* Exactly one departure so far.
OneDeparture == odd = Budget(iterArg) - 1
\* Nothing runs and nothing is scheduled.
Quiet == started /\ Idle /\ timers = <<>>

\* C1: for n >= 1 and a process callback that calls next() exactly once per
\* invocation, never breaks and never fails, process is invoked with
\* iteration() reading 0, 1, ..., n-1 in this order, n times in all, and exit
\* is invoked exactly once, after the last process invocation.
C1_ProcessInOrderThenExitOnce ==
  (iterArg.given /\ iterArg.n >= 1 /\ Plain) =>
    LET ps == Procs IN
    /\ Len(ps) <= iterArg.n
    /\ \A j \in 1 .. Len(ps) : ps[j].i = j - 1
    /\ ExitCount <= 1
    /\ ExitCount = 1 => (Len(ps) = iterArg.n /\ log[Len(log)].e = "exit")
    /\ Quiet => ExitCount = 1

\* A long plain run has completed: LongIter process calls, then exit.
C1_Witness ==
  /\ Plain
  /\ iterArg = Count(LongIter)
  /\ Quiet
  /\ Len(Procs) = LongIter
  /\ ExitCount = 1

\* C2: once the process callback has called break(false) in iteration k, no
\* process invocation for an index > k and no exit invocation follows.
C2_BreakFalseStopsEverything ==
  \A a \in 1 .. Len(log) :
    (log[a].e = "break" /\ log[a].sync /\ ~log[a].end) =>
      \A b \in (a + 1) .. Len(log) :
        /\ ~(log[b].e = "process" /\ log[b].i > log[a].i)
        /\ log[b].e # "exit"

\* C3: when the only departure of a run is a process callback that throws in
\* iteration i, nothing escapes the tick, no later index is processed, and
\* exit has been invoked exactly once when the tick is over.
C3_ThrowEndsRunWithOneExit ==
  \A a \in 1 .. Len(log) :
    (log[a].e = "throw" /\ OneDeparture) =>
      /\ escaped = 0
      /\ \A b \in (a + 1) .. Len(log) : log[b].e # "process"
      /\ ExitCount <= 1
      /\ Idle => ExitCount = 1

\* C4: for a missing or non-positive count, exit is invoked exactly once,
\* inside the syncLoop call, process is never invoked and nothing is ever
\* scheduled, whatever is later called on the returned handle.
C4_NoIterationsOneExitNoProcess ==
  (started /\ NoIterations(iterArg)) =>
    /\ Len(Procs) = 0
    /\ ExitCount = 1
    /\ \A j \in 1 .. Len(log) : log[j].e = "exit" => log[j].tick = 0
    /\ timers = <<>>
    /\ stack = <<>>

\* The holder of the no-op handle has called next() and break() on it.
C4_Witness ==
  /\ started
  /\ ~iterArg.given
  /\ tick = 2
  /\ BreakCount = 1
  /\ ExitCount = 1

\* Every process call for an index divisible by YieldEvery is made by the
\* scheduler in a later tick than the next() that asked for it, every other
\* one directly by next().
YieldDiscipline ==
  \A j \in 1 .. Len(log) :
    log[j].e = "process" =>
      IF log[j].cur % YieldEvery = 0
      THEN ~log[j].sync /\ log[j].tick > log[j].from
      ELSE log[j].sync /\ log[j].tick = log[j].from

\* Some process invocation of the running tick called next() a second time.
NextAgainInTick ==
  \E j \in 1 .. Len(log) : log[j].e = "nextAgain" /\ log[j].tick = tick

primaryAddress(o) == IF o.addresses # <<>> THEN o.addresses[1] ELSE o.address
Counts(o) ==
  /\ o.ok
  /\ o.spk
  /\ o.type \notin {"nonstandard", "nulldata"}
  /\ primaryAddress(o) # ""
Counted(list) == {i \in 1 .. Len(list) : Counts(list[i])}
Firsts(list) ==
  {i \in Counted(list) :
     \A j \in Counted(list) : j < i => primaryAddress(list[j]) # primaryAddress(list[i])}
RECURSIVE SumSat(_, _)
SumSat(list, idx) ==
  IF idx = {} THEN 0
  ELSE LET i == CHOOSE x \in idx : TRUE
       IN  convert_to_satoshi(list[i].value) + SumSat(list, idx \ {i})
TotalFor(list, a) ==
  SumSat(list, {i \in Counted(list) : primaryAddress(list[i]) = a})
RECURSIVE Ascending(_)
Ascending(set) ==
  IF set = {} THEN <<>>
  ELSE LET i == CHOOSE x \in set : \A y \in set : x <= y
       IN  <<i>> \o Ascending(set \ {i})
RefSet(list) ==
  LET at == Ascending(Firsts(list)) IN
  [k \in 1 .. Len(at) |->
     [addresses |-> primaryAddress(list[at[k]]),
      amount |-> TotalFor(list, primaryAddress(list[at[k]]))]]

\* The resolver call of the run, and how many outputs its loop is through.
TheCall == calls[1]
Processed ==
  LET waiting == timers # <<>> \/ \E k \in 1 .. Len(stack) : stack[k].pc = "start"
  IN  IF loops = <<>> THEN 0
      ELSE IF waiting THEN loops[1].index - 1 ELSE loops[1].index
AddressesOf(set) == [k \in 1 .. Len(set) |-> set[k].addresses]
NoDuplicates(set) ==
  \A j, k \in 1 .. Len(set) : j # k => set[j].addresses # set[k].addresses

\* The proof-of-stake case stated on the arguments: vout[0] is nonstandard,
\* both sets are non-empty and their first addresses agree.
StakeCase ==
  LET ref == RefSet(args.vout.items)
      vin == args.vin.items
  IN  /\ args.vout.isArray
      /\ Len(args.vout.items) > 0
      /\ args.vout.items[1].type = "nonstandard"
      /\ vin # <<>>
      /\ ref # <<>>
      /\ vin[1].addresses = ref[1].addresses

\* C6: while prepare_vout resolves, arr_vout is the reference resolution of
\* the outputs processed so far; the set handed to the callback has the
\* reference entries of the whole list, in the reference order, with the
\* reference amounts (the first amount is the one the proof-of-stake
\* adjustment may change).
C6_VoutIsReferenceFold ==
  (started /\ args.vout.isArray) =>
    LET ref == RefSet(args.vout.items) IN
    /\ TheCall.cbs = <<>> =>
         TheCall.arr_vout = RefSet(SubSeq(args.vout.items, 1, Processed))
    /\ TheCall.cbs # <<>> =>
         /\ AddressesOf(TheCall.cbs[1].vout) = AddressesOf(ref)
         /\ \A k \in 2 .. Len(ref) : TheCall.cbs[1].vout[k].amount = ref[k].amount
         /\ ~StakeCase => TheCall.cbs[1].vout = ref

\* Two outputs to "A" worth 1 and 2 coins, after another address, came back
\* as one entry of 300000000.
C6_Witness ==
  /\ started
  /\ args.vout.isArray
  /\ Len(args.vout.items) = 3
  /\ primaryAddress(args.vout.items[1]) = "A" /\ args.vout.items[1].value = Coin(1)
  /\ primaryAddress(args.vout.items[2]) = "B"
  /\ primaryAddress(args.vout.items[3]) = "A" /\ args.vout.items[3].value = Coin(2)
  /\ TheCall.cbs # <<>>
  /\ Len(TheCall.cbs[1].vout) = 2
  /\ TheCall.cbs[1].vout[1] = [addresses |-> "A", amount |-> 300000000]

\* C7: no list under construction and no list handed to a callback holds
\* two entries with the same addresses value.
C7_NoDuplicateAddresses ==
  \A c \in 1 .. Len(calls) :
    /\ NoDuplicates(calls[c].arr_vout)
    /\ calls[c].op = "prepare_vin" => NoDuplicates(calls[c].arr_vin.items)
    /\ \A j \in 1 .. Len(calls[c].cbs) :
         /\ NoDuplicates(calls[c].cbs[j].vout)
         /\ calls[c].op = "prepare_vin" => NoDuplicates(calls[c].cbs[j].vin)

\* The raw inputs that are coinbase inputs.
CoinbaseInputs ==
  {k \in 1 .. Len(args.vin.items) : args.vin.items[k].ok /\ args.vin.items[k].coinbase}

\* The sum of the output values of the transaction in smallest units: the
\* whole coins and the billionths added up apart, the billionths rounded
\* to eight places.
RECURSIVE Wholes(_)
Wholes(list) == IF list = <<>> THEN 0 ELSE Head(list).value.whole + Wholes(Tail(list))
RECURSIVE Billionths(_)
Billionths(list) == IF list = <<>> THEN 0 ELSE Head(list).value.frac + Billionths(Tail(list))
OutputTotal ==
  Wholes(args.vout.items) * SATOSHI_FACTOR + (Billionths(args.vout.items) + 5) \div 10

\* The addresses the data source has for the other inputs.
FundedBy(input) ==
  LET tx == source[input.txid] IN
  IF ~tx.ok THEN {}
  ELSE {primaryAddress(tx.vout.items[i]) :
          i \in {j \in 1 .. Len(tx.vout.items) :
                   tx.vout.items[j].n = input.vout /\ primaryAddress(tx.vout.items[j]) # ""}}
OtherAddresses ==
  UNION {FundedBy(args.vin.items[k]) :
           k \in {j \in 1 .. Len(args.vin.items) :
                    args.vin.items[j].ok /\ ~args.vin.items[j].coinbase}}

\* C8 as stated: a transaction with outputs and a coinbase input resolves to exactly
\* the one entry "coinbase" with the sum of its output values, whatever its
\* other inputs are.
C8_CoinbaseOnlyEntry ==
  (started /\ args.vin.isArray /\ args.vout.isArray /\ CoinbaseInputs # {}) =>
    \A j \in 1 .. Len(TheCall.cbs) :
      TheCall.cbs[j].vin = <<[addresses |-> "coinbase", amount |-> OutputTotal]>>

\* What prepare_vin does instead: for a transaction with outputs and a
\* coinbase input, the set handed to the callback has exactly one entry
\* "coinbase"; its amount is the sum of the output values once for every
\* coinbase input; the other inputs are still resolved and keep their own
\* entries; a coinbase input on its own gives the one entry with the sum.
CoinbaseEntryPerCoinbaseInput ==
  (started /\ args.vin.isArray /\ args.vout.isArray /\ CoinbaseInputs # {}
     /\ TheCall.cbs # <<>>) =>
    LET got == TheCall.cbs[1].vin
        at == {k \in 1 .. Len(got) : got[k].addresses = "coinbase"}
    IN  /\ Cardinality(at) = 1
        /\ \A k \in at : got[k].amount = Cardinality(CoinbaseInputs) * OutputTotal
        /\ {got[k].addresses : k \in 1 .. Len(got)} = {"coinbase"} \cup OtherAddresses
        /\ Len(args.vin.items) = 1 =>
             got = <<[addresses |-> "coinbase", amount |-> OutputTotal]>>

\* A coinbase input followed by an input funded by "A": outputs of 2 and 3
\* coins gave the entry "coinbase" of 500000000 and the entry of "A".
CoinbaseWitness ==
  /\ started
  /\ args.vin.isArray
  /\ Len(args.vin.items) = 2
  /\ args.vin.items[1].coinbase
  /\ args.vout.isArray
  /\ Len(args.vout.items) = 2
  /\ args.vout.items[1].value = Coin(2) /\ args.vout.items[2].value = Coin(3)
  /\ TheCall.cbs # <<>>
  /\ TheCall.cbs[1].vin = <<[addresses |-> "coinbase", amount |-> 500000000],
                            [addresses |-> "A", amount |-> 100000000]>>

\* C11: every entry of every set handed to a callback of prepare_vout or
\* prepare_vin has a natural number as amount, also after the
\* proof-of-stake adjustment.
C11_AmountsNonNegative ==
  \A c \in 1 .. Len(calls) :
    \A j \in 1 .. Len(calls[c].cbs) :
      /\ \A k \in 1 .. Len(calls[c].cbs[j].vout) : calls[c].cbs[j].vout[k].amount \in Nat
      /\ \A k \in 1 .. Len(calls[c].cbs[j].vin) : calls[c].cbs[j].vin[k].amount \in Nat

\* The process callback of prepare_vout on top of the stack works on an
\* output of type nulldata.
NulldataOnTop ==
  /\ Running
  /\ Top.fn = "vout"
  /\ TheCall.vout.items[Top.i + 1].ok
  /\ TheCall.vout.items[Top.i + 1].type = "nulldata"

\* C12: the callback working on an output of type nulldata does nothing but
\* call loop.next(): it never enters the conversion, and its own step
\* leaves the set under construction as it is, whatever value and
\* addresses the output carries.
C12_NulldataNeverCounts ==
  /\ [](NulldataOnTop => Top.pc \in {"start", "skip"})
  /\ [][(NulldataOnTop /\ Top.pc = "start") =>
         (calls' = calls /\ stack'[Len(stack')].pc = "skip")]_vars

\* An output of type nulldata with address "A" and value 1 followed one of
\* 1 coin to "A": the callback got the entry of "A" with 100000000.
C12_Witness ==
  /\ started
  /\ args.vout.isArray
  /\ Len(args.vout.items) = 2
  /\ args.vout.items[1] = Output("pubkeyhash", <<"A">>, "", Coin(1))
  /\ args.vout.items[2] = Output("nulldata", <<"A">>, "", Coin(1))
  /\ TheCall.cbs # <<>>
  /\ TheCall.cbs[1].vout = <<[addresses |-> "A", amount |-> 100000000]>>

\* No callback of the caller has thrown.
NoFailure == odd = MaxFail

\* Nothing is left to run: no activation, no timer, no request.
AtRest == started /\ Idle /\ timers = <<>> /\ fetches = <<>>

\* C13: as long as the caller's callback does not throw, no exception
\* reaches the caller or the scheduler, the callback is never called a
\* second time, and once nothing is left to run it has been called.
C13_CallbackOnceNothingEscapes ==
  NoFailure =>
    /\ escaped = 0
    /\ \A c \in 1 .. Len(calls) : Len(calls[c].cbs) <= 1
    /\ AtRest => (Len(calls) = 1 /\ Len(calls[1].cbs) = 1)

\* An input prepare_vin can resolve: a coinbase input, or one whose
\* referenced output the data source has, with an address.
Resolvable(input) == input.ok /\ (input.coinbase \/ FundedBy(input) # {})

\* What a resolvable input stands for: "coinbase" with the output total, or
\* the address and value of the output it spends.
Spent(input) ==
  LET tx == source[input.txid]
      o == tx.vout.items[CHOOSE i \in 1 .. Len(tx.vout.items) : tx.vout.items[i].n = input.vout]
  IN  IF input.coinbase THEN [addresses |-> "coinbase", amount |-> OutputTotal]
      ELSE [addresses |-> primaryAddress(o),
            amount |-> o.value.whole * SATOSHI_FACTOR + (o.value.frac + 5) \div 10]

\* Entries merged by address, in the order of first occurrence.
RECURSIVE Merged(_, _)
Merged(acc, inputs) ==
  IF inputs = <<>> THEN acc
  ELSE LET e == Spent(Head(inputs))
           at == {k \in 1 .. Len(acc) : acc[k].addresses = e.addresses}
       IN  IF at = {} THEN Merged(Append(acc, e), Tail(inputs))
           ELSE Merged([k \in 1 .. Len(acc) |->
                          IF k \in at THEN [acc[k] EXCEPT !.amount = @ + e.amount] ELSE acc[k]],
                       Tail(inputs))

\* The inputs before position n that resolve.
ResolvableBefore(n) == SelectSeq(SubSeq(args.vin.items, 1, n), Resolvable)

\* C14: the set prepare_vin hands to its callback is the one the resolvable
\* inputs alone give: an input that cannot be resolved adds no entry,
\* changes none, and leaves the resolution of the later inputs as it is.
C14_UnresolvedInputsSkipped ==
  (started /\ args.vin.isArray /\ args.vout.isArray /\ TheCall.cbs # <<>>) =>
    TheCall.cbs[1].vin = Merged(<<>>, ResolvableBefore(Len(args.vin.items)))

\* An input whose fetch fails and one whose output the answer does not
\* have, then an input funded by "A": the entry of "A" alone.
C14_Witness ==
  /\ started
  /\ args.vin.isArray
  /\ args.vout.isArray
  /\ Len(args.vin.items) = 3
  /\ args.vin.items[1] = Input(FALSE, "t2", 0)
  /\ args.vin.items[2] = Input(FALSE, "t1", 3)
  /\ args.vin.items[3] = Input(FALSE, "t1", 0)
  /\ TheCall.cbs # <<>>
  /\ TheCall.cbs[1].vin = <<[addresses |-> "A", amount |-> 100000000]>>

\* The query failed, or what it returned holds no number where the
\* strategy looks for one.
SupplyUnusable ==
  \/ source.err
  \/ /\ settings.supply \in {"", "OTHER"}
     /\ source.response.t = "missing"
  \/ /\ settings.supply = "HEAVY"
     /\ source.response.t # "num" \/ (settings.use_rpc /\ source.rpcError)
  \/ /\ settings.supply \in {"GETINFO", "TXOUTSET"}
     /\ \/ source.response.t # "record"
        \/ source.response.ft # "num"
        \/ settings.use_rpc /\ source.rpcError

\* C15: cb is never called twice; once the store or the node has answered
\* it has been called once, with a number, and with 0 when the query
\* failed or returned no number; no exception leaves get_supply.
C15_SupplyAlwaysANumber ==
  /\ \A c \in 1 .. Len(calls) : Len(calls[c].cbs) <= 1
  /\ NoFailure => escaped = 0
  /\ (started /\ fetches = <<>>) =>
       /\ Len(calls[1].cbs) = 1
       /\ calls[1].cbs[1].t = "num"
       /\ SupplyUnusable => calls[1].cbs[1] = Num(0, 1)

\* The TXOUTSET query failed and cb got 0.
C15_Witness ==
  /\ settings = Settings("TXOUTSET", TRUE)
  /\ source.err
  /\ calls # <<>>
  /\ calls[1].cbs = <<Num(0, 1)>>

\* C16: the callback of convert_to_satoshi is handed 0 for what is no
\* number, and for a decimal amount of at most eight fractional digits the
\* integer amount * 10^8: the whole coins followed by those eight digits.
C16_ExactSmallestUnits ==
  (started /\ calls # <<>>) =>
    /\ Len(calls[1].cbs) = 1
    /\ escaped = 0
    /\ args.amount.nan => calls[1].cbs[1] = [whole |-> 0, digits |-> 0]
    /\ (~args.amount.nan /\ args.amount.frac % 10 = 0) =>
         calls[1].cbs[1] = [whole |-> args.amount.whole, digits |-> args.amount.frac \div 10]

\* What holds instead: amounts below 2^26 coins are converted exactly,
\* "1.23456789" to 123456789 and "0.1" to 10000000.
ExactBelowTwoTo26 ==
  (started /\ calls # <<>> /\ ~args.amount.nan /\ args.amount.frac % 10 = 0
     /\ args.amount.whole < 2^26) =>
    /\ calls[1].cbs = <<[whole |-> args.amount.whole, digits |-> args.amount.frac \div 10]>>
    /\ convert_to_satoshi(Dec(1, 234567890)) = 123456789
    /\ convert_to_satoshi(Dec(0, 100000000)) = 10000000

\* The process callback on top of the stack has just called break(true),
\* the only departure of the run, and has not called next() yet.
JustBrokeToExit ==
  /\ Running
  /\ Top.fn = "process"
  /\ Top.nexts = 0
  /\ OneDeparture
  /\ log # <<>>
  /\ log[Len(log)].e = "break" /\ log[Len(log)].sync /\ log[Len(log)].end
  /\ log[Len(log)].i = Top.i

\* C17: when break(true) in iteration k is the only departure of a run, the
\* next() call that follows it in the same callback invokes exit at that call
\* and starts or schedules nothing; from then on no index > k is processed
\* and exit has been invoked exactly once.
C17_BreakTrueExitsAtNext ==
  /\ [][(JustBrokeToExit /\ Len(stack') = Len(stack)
          /\ stack'[Len(stack')].nexts = 1) =>
         (/\ Len(log') = Len(log) + 1
          /\ log'[Len(log')].e = "exit"
          /\ timers' = timers)]_vars
  /\ [](\A a \in 1 .. Len(log) :
          (/\ log[a].e = "break" /\ log[a].sync /\ log[a].end
           /\ OneDeparture
           /\ a < Len(log) /\ log[a + 1].e = "exit") =>
            /\ \A b \in 1 .. Len(log) :
                 ~(log[b].e = "process" /\ log[b].i > log[a].i)
            /\ ExitCount = 1)

\* break(true) in iteration 1 of 3, then next(): two invocations, one exit.
C17_Witness ==
  /\ iterArg = Count(3)
  /\ OneDeparture
  /\ Quiet
  /\ Len(Procs) = 2
  /\ \E a \in 1 .. Len(log) : log[a].e = "break" /\ log[a].end /\ log[a].i = 1
  /\ log[Len(log)].e = "exit"
  /\ ExitCount = 1

\* An output that carries a usable address: addresses[0] or address.
UsableAddress(output) ==
  output.ok /\ output.spk /\ outputAddresses(output) # <<>>

\* C18: every output with a usable address, whatever its type, has the entry
\* of its primary address in the set handed to the callback, and that set
\* has no entry for any other address.
C18_SkipsOnlyWithoutAddress ==
  (started /\ args.vout.isArray /\ TheCall.cbs # <<>>) =>
    LET set == TheCall.cbs[1].vout
        usable == {j \in 1 .. Len(args.vout.items) : UsableAddress(args.vout.items[j])}
    IN  {set[k].addresses : k \in 1 .. Len(set)} =
          {outputAddresses(args.vout.items[j])[1] : j \in usable}

\* C19: prepare_vin never has two requests outstanding; a request is issued
\* by the iteration of the input it is for, when no request is outstanding
\* and every earlier input has been inserted or skipped, so that the set
\* under construction follows the order of the inputs.
C19_FetchesOneAtATimeInOrder ==
  /\ [](Len(fetches) <= 1)
  /\ [][Len(fetches') > Len(fetches) =>
         (/\ fetches = <<>>
          /\ Running /\ Top.fn = "vin"
          /\ Top.i = loops[Top.loop].index - 1
          /\ fetches'[1].input = args.vin.items[Top.i + 1]
          /\ calls[1].arr_vin.items = Merged(<<>>, ResolvableBefore(Top.i))
          /\ calls'[1].arr_vin = calls[1].arr_vin)]_vars

\* The request for the second input is outstanding; the first input, funded
\* by "A", has its entry.
C19_Witness ==
  /\ started
  /\ args.vin.isArray
  /\ Len(args.vin.items) >= 2
  /\ args.vin.items[1] = Input(FALSE, "t1", 0)
  /\ args.vin.items[2] = Input(FALSE, "t1", 1)
  /\ fetches = <<[loop |-> 1, input |-> args.vin.items[2]]>>
  /\ Len(TheCall.arr_vin.items) = 1
  /\ TheCall.arr_vin.items[1].addresses = "A"

\* What prepare_vout hands to its callback when it runs alone.
AloneVout(a) ==
  LET ref == RefSet(a.vout.items)
      vin == IF a.vin.isArray THEN a.vin.items ELSE <<>>
      stake == /\ a.vout.items # <<>>
               /\ a.vout.items[1].ok /\ a.vout.items[1].spk
               /\ a.vout.items[1].type = "nonstandard"
               /\ vin # <<>> /\ ref # <<>>
               /\ vin[1].addresses = ref[1].addresses
  IN  IF ~a.vout.isArray THEN [vout |-> <<>>, vin |-> vin]
      ELSE IF stake
      THEN [vout |-> [ref EXCEPT ![1].amount = @ - vin[1].amount], vin |-> Tail(vin)]
      ELSE [vout |-> ref, vin |-> vin]

\* What prepare_vin hands to its callback when it runs alone: the entries
\* of its resolvable inputs, merged by address in the order of the inputs.
SpentIn(a, input) ==
  LET tx == source[input.txid]
      o == tx.vout.items[CHOOSE i \in 1 .. Len(tx.vout.items) : tx.vout.items[i].n = input.vout]
  IN  IF input.coinbase
      THEN [addresses |-> "coinbase",
            amount |-> Wholes(a.vout.items) * SATOSHI_FACTOR
                         + (Billionths(a.vout.items) + 5) \div 10]
      ELSE [addresses |-> primaryAddress(o),
            amount |-> o.value.whole * SATOSHI_FACTOR + (o.value.frac + 5) \div 10]
RECURSIVE MergedIn(_, _, _)
MergedIn(a, acc, inputs) ==
  IF inputs = <<>> THEN acc
  ELSE LET e == SpentIn(a, Head(inputs))
           at == {k \in 1 .. Len(acc) : acc[k].addresses = e.addresses}
       IN  IF at = {} THEN MergedIn(a, Append(acc, e), Tail(inputs))
           ELSE MergedIn(a, [k \in 1 .. Len(acc) |->
                               IF k \in at THEN [acc[k] EXCEPT !.amount = @ + e.amount]
                               ELSE acc[k]],
                         Tail(inputs))
AloneVin(a) ==
  [vout |-> <<>>,
   vin |-> IF a.vin.isArray THEN MergedIn(a, <<>>, SelectSeq(a.vin.items, Resolvable)) ELSE <<>>]

\* A call that calls back when it runs alone: prepare_vin does not when a
\* coinbase input meets a transaction without output list.
CallsBackAlone(a) ==
  \/ a.op = "prepare_vout"
  \/ ~a.vin.isArray
  \/ a.vout.isArray
  \/ \A k \in 1 .. Len(a.vin.items) : ~(a.vin.items[k].ok /\ a.vin.items[k].coinbase)
Alone(a) == IF a.op = "prepare_vout" THEN AloneVout(a) ELSE AloneVin(a)

\* The calls a step writes to: those whose closure or whose loops it
\* changes or creates.
Written ==
  {c \in 1 .. Len(calls') : c > Len(calls) \/ calls'[c] # calls[c]}
  \cup {loops'[l].call : l \in {k \in 1 .. Len(loops') : k > Len(loops) \/ loops'[k] # loops[k]}}

\* C20: with two resolver calls in flight, a step writes to one call only,
\* the one whose callback is running, and each call hands its callback the
\* sets it hands over when it runs alone.
C20_CallsDoNotInterfere ==
  /\ [][/\ Cardinality(Written) <= 1
         /\ stack # <<>> => Written \subseteq {loops[Top.loop].call}]_vars
  /\ [](\A c \in 1 .. Len(calls) :
          /\ (calls[c].cbs # <<>> /\ CallsBackAlone(args[c])) =>
               calls[c].cbs[1] = Alone(args[c])
          /\ (AtRest /\ Len(calls) = 2 /\ NoFailure /\ CallsBackAlone(args[c])) =>
               Len(calls[c].cbs) = 1)

\* Two prepare_vin calls spend the same output of "A": the second call has
\* handed over its entry of "A" while the first, with an entry of "A" of
\* its own, waits for its second request.
C20_Witness ==
  /\ Len(calls) = 2
  /\ args[1] = Resolver("prepare_vin", NoArray, Array(<<Input(FALSE, "t1", 0), Input(FALSE, "t1", 0)>>))
  /\ args[2] = Resolver("prepare_vin", NoArray, Array(<<Input(FALSE, "t1", 0)>>))
  /\ calls[2].cbs # <<>>
  /\ calls[2].cbs[1].vin = <<[addresses |-> "A", amount |-> 100000000]>>
  /\ calls[1].cbs = <<>>
  /\ Len(calls[1].arr_vin.items) = 1
  /\ Len(fetches) = 1

\* C21: in a run of syncLoop, whatever the process callback calls and
\* whether or not it throws, the log holds at most one invocation of exit.
C21_ExitAtMostOnce ==
  started => Cardinality({a \in 1 .. Len(log) : log[a].e = "exit"}) <= 1

\* C9: nothing is adjusted before the callback is called; in the
\* proof-of-stake case the callback gets the first output amount less the
\* first input amount and the inputs without their first entry, in every
\* other case both sets as resolved; a further callback call sees the same.
C9_StakeAdjustment ==
  started =>
    LET ref == IF args.vout.isArray THEN RefSet(args.vout.items) ELSE <<>>
        vin == args.vin.items
    IN  /\ TheCall.cbs = <<>> => TheCall.arr_vin.items = vin
        /\ \A j \in 1 .. Len(TheCall.cbs) :
             IF StakeCase
             THEN /\ TheCall.cbs[j].vout[1].amount = ref[1].amount - vin[1].amount
                  /\ TheCall.cbs[j].vin = Tail(vin)
             ELSE /\ TheCall.cbs[j].vin = vin
                  /\ j = 1 => TheCall.cbs[j].vout = ref

\* The adjustment took place: 2 coins to "A" staked with 1 coin from "A".
C9_Witness ==
  /\ started
  /\ StakeCase
  /\ TheCall.cbs # <<>>
  /\ TheCall.cbs[1].vout[1] = [addresses |-> "A", amount |-> 100000000]
  /\ Len(args.vin.items) = 2
  /\ TheCall.cbs[1].vin = Tail(args.vin.items)

\* C10 as stated: in the proof-of-stake case the list object the caller
\* passed as vin has lost its first entry once the callback is called.
C10_CallerListShifted ==
  (started /\ StakeCase /\ TheCall.cbs # <<>>) =>
    TheCall.vin.items = Tail(args.vin.items)

\* C10 amended: the list object the caller passed as vin never changes; in
\* the proof-of-stake case only the list handed to the callback lacks the
\* matched first entry.
C10_CallerListKept ==
  started =>
    /\ TheCall.vin = args.vin
    /\ (StakeCase /\ TheCall.cbs # <<>>) =>
         /\ TheCall.cbs[1].vin = Tail(args.vin.items)
         /\ TheCall.cbs[1].vin # TheCall.vin.items

\* The adjustment took place and the caller's list still has its entry.
C10_Witness ==
  /\ started
  /\ StakeCase
  /\ TheCall.cbs # <<>>
  /\ TheCall.cbs[1].vin = <<>>
  /\ Len(TheCall.vin.items) = 1

====
